---- MODULE Spec2Model ----
(***************************************************************************)
(* The OpenStack Zun provider of virtual-kubelet                           *)
(* (providers/openstack/zun.go): the translation between pods and Zun      *)
(* capsules and the lifecycle operations built on it.                      *)
(*                                                                         *)
(* Three specifications share the translation operators:                   *)
(*   Spec       CreatePod / GetPod / GetPods / GetPodStatus / UpdatePod /  *)
(*              DeletePod against a capsule store keyed by capsule name;   *)
(*   SpecList   GetPods over a paginated capsule list;                     *)
(*   SpecXlate  capsuleToPod applied to one capsule record.                *)
(*                                                                         *)
(* Units: a capsule container's CPU is a float64 count of cores in the     *)
(* source; the model holds it in thousandths of a core (CPU = 1500 is 1.5  *)
(* cores).  A memory limit of a pod is held in decimal megabytes.          *)
(***************************************************************************)
EXTENDS Integers, Sequences, FiniteSets, TLC

VARIABLES
    store,      \* the capsules the remote engine holds
    submitted,  \* history: the pods whose capsule, as CreatePod sent it, is still in the store
    live,       \* history: <<namespace, name>> of the pods created and not deleted since
    pages,      \* SpecList: the pages the remote list call returns
    cap,        \* SpecXlate: the capsule record handed to capsuleToPod
    ret         \* what the last call returned

vars == <<store, submitted, live, pages, cap, ret>>

----------------------------------------------------------------------------
(* Bounds *)

MaxContainers == 1      \* containers of a pod or of a capsule: 0..MaxContainers
MaxAddrs == 2           \* addresses a capsule reports on one network
MaxPages == 2           \* pages of the remote capsule list
MaxPageLen == 2         \* entries of one page

----------------------------------------------------------------------------
(* Values *)

Nil == [nil |-> TRUE]           \* a nil pointer
NoErr == "nil"                  \* a nil error
ErrNotFound == "404 Not Found"
ErrConflict == "409 Conflict"
ErrExtract == "cannot unmarshal capsule page"

\* p.nodeName, set by NewZunProvider
nodeName == "vk"

\* a Go map read: the zero value for a key the map does not hold
MapGet(m, k) == IF k \in DOMAIN m THEN m[k] ELSE ""

\* fmt.Sprintf("%s-%s", namespace, name)
BuildCapsuleName(namespace, name) == namespace \o "-" \o name

SeqsUpTo(S, n) == UNION {[1..k -> S] : k \in 0..n}

Perms(S) == {f \in [1..Cardinality(S) -> S] : \A i, j \in DOMAIN f : f[i] = f[j] => i = j}

----------------------------------------------------------------------------
(* The status mappings *)

\* zunContainerStausToContainerStatus with a fault: "Stopped" falls through to Waiting
zunContainerStausToContainerStatus_StoppedWaits(cs) ==
    IF cs.Status = "Running"
    THEN [Running |-> [StartedAt |-> cs.CreatedAt], Terminated |-> Nil, Waiting |-> Nil]
    ELSE IF cs.Status = "Error" \/ cs.Status = "Dead"
    THEN [Running |-> Nil,
          Terminated |-> [ExitCode |-> 0, Reason |-> cs.Status, Message |-> cs.StatusDetail,
                          StartedAt |-> cs.CreatedAt, FinishedAt |-> cs.UpdatedAt],
          Waiting |-> Nil]
    ELSE [Running |-> Nil, Terminated |-> Nil,
          Waiting |-> [Reason |-> cs.Status, Message |-> cs.StatusDetail]]

zunContainerStausToContainerStatus(cs) ==
    IF cs.Status = "Running" \/ cs.Status = "Stopped"
    THEN [Running |-> [StartedAt |-> cs.CreatedAt], Terminated |-> Nil, Waiting |-> Nil]
    ELSE IF cs.Status = "Error" \/ cs.Status = "Dead"
    THEN [Running |-> Nil,
          Terminated |-> [ExitCode |-> 0, Reason |-> cs.Status, Message |-> cs.StatusDetail,
                          StartedAt |-> cs.CreatedAt, FinishedAt |-> cs.UpdatedAt],
          Waiting |-> Nil]
    ELSE [Running |-> Nil, Terminated |-> Nil,
          Waiting |-> [Reason |-> cs.Status, Message |-> cs.StatusDetail]]

zunStatusToPodPhase(status) ==
    CASE status = "Running" -> "Running"
      [] status = "Stopped" -> "Succeeded"
      [] status = "Error" -> "Failed"
      [] status = "Dead" -> "Failed"
      [] status = "Creating" -> "Pending"
      [] status = "Created" -> "Pending"
      [] status = "Restarting" -> "Pending"
      [] status = "Rebuilding" -> "Pending"
      [] status = "Paused" -> "Pending"
      [] status = "Deleting" -> "Pending"
      [] status = "Deleted" -> "Pending"
      [] OTHER -> "Unknown"

\* zunCapStatusToPodPhase with a fault: the capsule status is read with the
\* container vocabulary
zunCapStatusToPodPhase_ContainerWords(status) == zunStatusToPodPhase(status)

zunCapStatusToPodPhase(status) ==
    CASE status = "Running" -> "Running"
      [] status = "Succeeded" -> "Succeeded"
      [] status = "Failed" -> "Failed"
      [] status = "Pending" -> "Pending"
      [] OTHER -> "Unknown"

----------------------------------------------------------------------------
(* capsuleToPod *)

\* the loops over capsule.Addresses: `order` is the order in which the Go map
\* yields its keys, and every version-4 address met overwrites ip
RECURSIVE scanAddrs(_, _)
scanAddrs(addrs, ip) ==
    IF addrs = <<>> THEN ip
    ELSE scanAddrs(Tail(addrs), IF Head(addrs).Version = 4 THEN Head(addrs).Addr ELSE ip)

RECURSIVE scanNetworks(_, _, _)
scanNetworks(addresses, order, ip) ==
    IF order = <<>> THEN ip
    ELSE scanNetworks(addresses, Tail(order), scanAddrs(addresses[Head(order)], ip))

\* a nil Addresses map is the map with no key: the loops do not run and ip stays ""
podIP(capsule, order) ==
    IF DOMAIN capsule.Addresses # {} THEN scanNetworks(capsule.Addresses, order, "") ELSE ""

\* the orders in which ranging over capsule.Addresses can visit its keys
MapOrders(capsule) == Perms(DOMAIN capsule.Addresses)

podContainer(c) ==
    [Name |-> c.Name,
     Image |-> c.Image,
     Command |-> <<c.Command>>,
     Limits |-> [cpu |-> c.CPU \div 1000, memory |-> "1G"],
     Requests |-> [cpu |-> (c.CPU * 1024) \div 100000, memory |-> "1G"]]

podContainerStatus(c) ==
    [Name |-> c.Name,
     State |-> zunContainerStausToContainerStatus(c),
     LastTerminationState |-> zunContainerStausToContainerStatus(c),
     Ready |-> (zunStatusToPodPhase(c.Status) = "Running"),
     RestartCount |-> 0,
     Image |-> c.Image,
     ImageID |-> "",
     ContainerID |-> c.ContainerID]

\* podObjectMeta with a fault: the name is read off the capsule's own name
podObjectMeta_FromCapsuleName(capsule) ==
    [Name |-> capsule.MetaName,
     Namespace |-> MapGet(capsule.MetaLabels, "Namespace"),
     ClusterName |-> MapGet(capsule.MetaLabels, "ClusterName"),
     UID |-> capsule.UUID,
     CreationTimestamp |-> capsule.CreatedAt]

podObjectMeta(capsule) ==
    [Name |-> MapGet(capsule.MetaLabels, "PodName"),
     Namespace |-> MapGet(capsule.MetaLabels, "Namespace"),
     ClusterName |-> MapGet(capsule.MetaLabels, "ClusterName"),
     UID |-> capsule.UUID,
     CreationTimestamp |-> capsule.CreatedAt]

\* the pod, and the error, capsuleToPod returns: the error is nil on every path
capsuleToPod(capsule, order) ==
    [pod |->
        [Kind |-> "Pod",
         APIVersion |-> "v1",
         ObjectMeta |-> podObjectMeta(capsule),
         Spec |-> [NodeName |-> MapGet(capsule.MetaLabels, "NodeName"),
                   Volumes |-> <<>>,
                   Containers |-> [i \in DOMAIN capsule.Containers |->
                                      podContainer(capsule.Containers[i])]],
         Status |-> [Phase |-> zunCapStatusToPodPhase(capsule.Status),
                     Conditions |-> <<>>,
                     Message |-> "",
                     Reason |-> "",
                     HostIP |-> "",
                     PodIP |-> podIP(capsule, order),
                     StartTime |-> capsule.UpdatedAt,
                     ContainerStatuses |-> [i \in DOMAIN capsule.Containers |->
                                               podContainerStatus(capsule.Containers[i])]]],
     err |-> NoErr]

----------------------------------------------------------------------------
(* CreatePod: the capsule request *)

\* c.Environment: the last entry of container.Env with a name gives its value
envMap(env) ==
    [k \in {env[i].Name : i \in DOMAIN env} |->
        env[CHOOSE i \in DOMAIN env :
                /\ env[i].Name = k
                /\ \A j \in DOMAIN env : env[j].Name = k => j <= i].Value]

\* one entry of getContainers.  Limits is Nil or holds both cpu (millicores) and
\* memory (megabytes); CPU and Memory keep their zero value without limits
capsuleContainer(container) ==
    [Name |-> container.Name,
     Image |-> container.Image,
     Command |-> container.Command \o container.Args,
     WorkDir |-> container.WorkingDir,
     ImagePullPolicy |-> container.ImagePullPolicy,
     Environment |-> envMap(container.Env),
     CPU |-> IF container.Limits # Nil THEN container.Limits.cpu ELSE 0,
     Memory |-> IF container.Limits # Nil THEN (container.Limits.memory * 1024) \div 1000 ELSE 0]

getContainers(pod) ==
    [i \in DOMAIN pod.Containers |-> capsuleContainer(pod.Containers[i])]

capsuleLabels(pod) ==
    [PodName |-> pod.Name,
     ClusterName |-> pod.ClusterName,
     NodeName |-> pod.NodeName,
     Namespace |-> pod.Namespace,
     UID |-> pod.UID,
     CreationTimestamp |-> pod.CreationTimestamp]

\* the capsule CreatePod builds
capsuleRequest(pod) ==
    [RestartPolicy |-> pod.RestartPolicy,
     CapsuleVersion |-> "beta",
     MetaLabels |-> capsuleLabels(pod),
     MetaName |-> BuildCapsuleName(pod.Namespace, pod.Name),
     Containers |-> getContainers(pod)]

----------------------------------------------------------------------------
(* The remote engine: capsules addressed by name *)

\* the capsules the engine holds under a name
capsulesNamed(name) == {c \in store : c.MetaName = name}

\* what the engine adds to a container of a capsule it accepts
engineContainer(c) ==
    [Name |-> c.Name, Image |-> c.Image, Command |-> c.Command, WorkDir |-> c.WorkDir,
     ImagePullPolicy |-> c.ImagePullPolicy, Environment |-> c.Environment,
     CPU |-> c.CPU, Memory |-> c.Memory,
     Status |-> "Creating", StatusDetail |-> "", ContainerID |-> "",
     CreatedAt |-> 1, UpdatedAt |-> 1]

\* the capsule the engine holds once it has accepted a request: the request as
\* submitted, with the engine's own identifier, status, addresses and timestamps
engineCapsule(req) ==
    [RestartPolicy |-> req.RestartPolicy, CapsuleVersion |-> req.CapsuleVersion,
     MetaLabels |-> req.MetaLabels, MetaName |-> req.MetaName,
     Containers |-> [i \in DOMAIN req.Containers |-> engineContainer(req.Containers[i])],
     UUID |-> "zun-" \o req.MetaName,
     Status |-> "Pending",
     Addresses |-> <<>>,
     CreatedAt |-> 1, UpdatedAt |-> 1]

\* the engine starts a pending capsule, or fails to
engineSettled(c, ok) ==
    [c EXCEPT
        !.Status = IF ok THEN "Running" ELSE "Error",
        !.UpdatedAt = 2,
        !.Addresses = IF ok THEN [n \in {"private"} |-> <<[Addr |-> "10.0.0.5", Version |-> 4]>>]
                      ELSE <<>>,
        !.Containers = [i \in DOMAIN c.Containers |->
                           [c.Containers[i] EXCEPT
                               !.Status = IF ok THEN "Running" ELSE "Dead",
                               !.StatusDetail = IF ok THEN "" ELSE "exited",
                               !.ContainerID = "cid",
                               !.UpdatedAt = 2]]]

----------------------------------------------------------------------------
(* The pods the control plane hands to the provider *)

Namespaces == {"a", "a-b"}
PodNames == {"c", "b-c"}
PodKeys == {<<"a-b", "c">>, <<"a", "b-c">>, <<"a", "c">>}
UIDs == {"uid-1", "uid-2"}

ContainerSpecs ==
    {[Name |-> "app", Image |-> "nginx", Command |-> <<"sh">>, Args |-> <<"-c">>,
      WorkingDir |-> "/", ImagePullPolicy |-> "Always",
      Env |-> <<[Name |-> "K", Value |-> "1"], [Name |-> "K", Value |-> "2"]>>,
      Limits |-> [cpu |-> 1500, memory |-> 1000]],
     [Name |-> "sidecar", Image |-> "busybox", Command |-> <<>>, Args |-> <<>>,
      WorkingDir |-> "", ImagePullPolicy |-> "IfNotPresent",
      Env |-> <<>>,
      Limits |-> Nil]}

\* the container lists of a pod: at least one container, names unique within the pod
ContainerLists ==
    {cs \in SeqsUpTo(ContainerSpecs, MaxContainers) :
        /\ cs # <<>>
        /\ \A i, j \in DOMAIN cs : cs[i].Name = cs[j].Name => i = j}

Pods ==
    {[Namespace |-> k[1], Name |-> k[2], UID |-> u, ClusterName |-> "east",
      NodeName |-> nodeName, CreationTimestamp |-> "2018-05-01", RestartPolicy |-> "Always",
      Containers |-> cs] :
        k \in PodKeys, u \in UIDs, cs \in ContainerLists}

sameName(pod, name) == BuildCapsuleName(pod.Namespace, pod.Name) = name

----------------------------------------------------------------------------
(* The list call and GetPods' loops *)

\* capsules.ExtractCapsules: the body of a page unmarshals as a whole or not at all
ExtractCapsules(page) ==
    IF \E i \in DOMAIN page : ~page[i].decodes
    THEN [capsules |-> <<>>, err |-> ErrExtract]
    ELSE [capsules |-> [i \in DOMAIN page |-> page[i].capsule], err |-> NoErr]

\* ownedByNode with a fault: no capsule is skipped for its NodeName label
ownedByNode_All(m) == TRUE

\* the test GetPods makes of a listed capsule before it translates it
ownedByNode(m) == MapGet(m.MetaLabels, "NodeName") = nodeName

\* the loop over the capsules of one page: the pods appended to `pods`.  The
\* listed capsules report one network, whose map has one order.
RECURSIVE appendPods(_, _)
appendPods(CapsuleList, pods) ==
    IF CapsuleList = <<>> THEN pods
    ELSE LET m == Head(CapsuleList)
             got == capsuleToPod(m, CHOOSE o \in MapOrders(m) : TRUE)
         IN  IF ~ownedByNode(m) THEN appendPods(Tail(CapsuleList), pods)
             ELSE IF got.err # NoErr THEN appendPods(Tail(CapsuleList), pods)
             ELSE appendPods(Tail(CapsuleList), Append(pods, got.pod))

\* the second pass of GetPods over the pages: the first page that does not
\* extract ends the call with (nil, err)
RECURSIVE eachPage(_, _)
eachPage(pgs, pods) ==
    IF pgs = <<>> THEN [pods |-> pods, err |-> NoErr]
    ELSE LET got == ExtractCapsules(Head(pgs))
         IN  IF got.err # NoErr THEN [pods |-> <<>>, err |-> got.err]
             ELSE eachPage(Tail(pgs), appendPods(got.capsules, pods))

\* GetPods: the first pass over the pages counts them to size `pods` and reads
\* no entry; the second pass gives the result
GetPodsResult(pgs) == eachPage(pgs, <<>>)

\* the pages in which the engine lists the capsules it holds: in any order,
\* MaxPageLen to a page
RECURSIVE pagesOf(_)
pagesOf(entries) ==
    IF Len(entries) <= MaxPageLen THEN (IF entries = <<>> THEN <<>> ELSE <<entries>>)
    ELSE <<SubSeq(entries, 1, MaxPageLen)>> \o pagesOf(SubSeq(entries, MaxPageLen + 1, Len(entries)))

StoreListings ==
    {pagesOf([i \in DOMAIN f |-> [capsule |-> f[i], decodes |-> TRUE]]) : f \in Perms(store)}


----------------------------------------------------------------------------
(* The lifecycle operations *)

Returned(op, namespace, name, err, pod, status, pods) ==
    [op |-> op, namespace |-> namespace, name |-> name, err |-> err,
     pod |-> pod, status |-> status, pods |-> pods]

\* GetPod's results: (nil, err) when the engine has no capsule of that name,
\* else what capsuleToPod gives
GetPodResult(namespace, name, order) ==
    LET found == capsulesNamed(BuildCapsuleName(namespace, name))
    IN  IF found = {} THEN [pod |-> Nil, err |-> ErrNotFound]
        ELSE capsuleToPod(CHOOSE c \in found : TRUE, order)

GetPodOrders(namespace, name) ==
    LET found == capsulesNamed(BuildCapsuleName(namespace, name))
    IN  IF found = {} THEN {<<>>} ELSE MapOrders(CHOOSE c \in found : TRUE)

\* GetPodStatus, given what its call of GetPod returned
GetPodStatusResult(got) ==
    IF got.err # NoErr THEN [status |-> Nil, err |-> got.err]
    ELSE IF got.pod = Nil THEN [status |-> Nil, err |-> NoErr]
    ELSE [status |-> got.pod.Status, err |-> NoErr]

\* DeletePodResult with a fault: the engine's error is swallowed
DeletePodResult_Swallowed(remoteErr) == NoErr

\* DeletePod returns the error of the remote delete call as it is
DeletePodResult(remoteErr) == remoteErr

Init ==
    /\ store = {}
    /\ submitted = {}
    /\ live = {}
    /\ pages = <<>>
    /\ cap = Nil
    /\ ret = Returned("NewZunProvider", "", "", NoErr, Nil, Nil, <<>>)

\* CreatePod: build the capsule and submit it under its name.  A name the engine
\* already holds is either refused or taken over by the new capsule.
CreatePod(pod) ==
    LET req == capsuleRequest(pod)
        name == BuildCapsuleName(pod.Namespace, pod.Name)
        held == capsulesNamed(name)
    IN  \/ /\ store' = (store \ held) \cup {engineCapsule(req)}
           /\ submitted' = {q \in submitted : ~sameName(q, name)} \cup {pod}
           /\ live' = live \cup {<<pod.Namespace, pod.Name>>}
           /\ ret' = Returned("CreatePod", pod.Namespace, pod.Name, NoErr, Nil, Nil, <<>>)
           /\ UNCHANGED <<pages, cap>>
        \/ /\ held # {}
           /\ ret' = Returned("CreatePod", pod.Namespace, pod.Name, ErrConflict, Nil, Nil, <<>>)
           /\ UNCHANGED <<store, submitted, live, pages, cap>>

GetPod(namespace, name) ==
    /\ \E order \in GetPodOrders(namespace, name) :
          LET got == GetPodResult(namespace, name, order)
          IN  ret' = Returned("GetPod", namespace, name, got.err, got.pod, Nil, <<>>)
    /\ UNCHANGED <<store, submitted, live, pages, cap>>

GetPodStatus(namespace, name) ==
    /\ \E order \in GetPodOrders(namespace, name) :
          LET res == GetPodStatusResult(GetPodResult(namespace, name, order))
          IN  ret' = Returned("GetPodStatus", namespace, name, res.err, Nil, res.status, <<>>)
    /\ UNCHANGED <<store, submitted, live, pages, cap>>

GetPods(pgs) ==
    /\ LET got == GetPodsResult(pgs)
       IN  ret' = Returned("GetPods", "", "", got.err, Nil, Nil, got.pods)
    /\ UNCHANGED <<store, submitted, live, pages, cap>>

UpdatePod(pod) ==
    /\ ret' = Returned("UpdatePod", pod.Namespace, pod.Name, NoErr, Nil, Nil, <<>>)
    /\ UNCHANGED <<store, submitted, live, pages, cap>>

DeletePod(pod) ==
    LET name == BuildCapsuleName(pod.Namespace, pod.Name)
        held == capsulesNamed(name)
        remoteErr == IF held = {} THEN ErrNotFound ELSE NoErr
    IN  /\ store' = store \ held
        /\ submitted' = {q \in submitted : ~sameName(q, name)}
        /\ live' = IF held = {} THEN live ELSE live \ {<<pod.Namespace, pod.Name>>}
        /\ ret' = Returned("DeletePod", pod.Namespace, pod.Name, DeletePodResult(remoteErr),
                           Nil, Nil, <<>>)
        /\ UNCHANGED <<pages, cap>>

\* the engine settles a pending capsule
ZunSettle(c, ok) ==
    /\ c.Status = "Pending"
    /\ store' = (store \ {c}) \cup {engineSettled(c, ok)}
    /\ ret' = Returned("", "", "", NoErr, Nil, Nil, <<>>)
    /\ UNCHANGED <<submitted, live, pages, cap>>

Next ==
    \/ \E pod \in Pods : CreatePod(pod)
    \/ \E ns \in Namespaces, n \in PodNames : GetPod(ns, n)
    \/ \E ns \in Namespaces, n \in PodNames : GetPodStatus(ns, n)
    \/ \E pgs \in StoreListings : GetPods(pgs)
    \/ \E pod \in Pods : UpdatePod(pod)
    \/ \E pod \in Pods : DeletePod(pod)
    \/ \E c \in store, ok \in BOOLEAN : ZunSettle(c, ok)

Spec == Init /\ [][Next]_vars

----------------------------------------------------------------------------
(* GetPods over a paginated capsule list *)

\* a capsule as the engine lists it
listedCapsule(namespace, name, node) ==
    [RestartPolicy |-> "Always", CapsuleVersion |-> "beta",
     MetaLabels |-> [PodName |-> name, ClusterName |-> "east", NodeName |-> node,
                     Namespace |-> namespace, UID |-> "uid-1",
                     CreationTimestamp |-> "2018-05-01"],
     MetaName |-> BuildCapsuleName(namespace, name),
     Containers |-> <<[Name |-> "app", Image |-> "nginx", Command |-> "sh -c", WorkDir |-> "/",
                       ImagePullPolicy |-> "Always", Environment |-> <<>>,
                       CPU |-> 1500, Memory |-> 1024,
                       Status |-> "Running", StatusDetail |-> "", ContainerID |-> "cid",
                       CreatedAt |-> 1, UpdatedAt |-> 2]>>,
     UUID |-> "zun-1", Status |-> "Running",
     Addresses |-> [n \in {"private"} |-> <<[Addr |-> "10.0.0.5", Version |-> 4]>>],
     CreatedAt |-> 1, UpdatedAt |-> 2]

\* the entries of a list page: a capsule, and whether the entry's JSON unmarshals
\* into a capsule.  The third differs from the first in its NodeName label alone;
\* the fourth is the first with a field that does not unmarshal.
ListEntries ==
    {[capsule |-> listedCapsule("a", "c", nodeName), decodes |-> TRUE],
     [capsule |-> listedCapsule("a-b", "c", nodeName), decodes |-> TRUE],
     [capsule |-> listedCapsule("a", "c", "other"), decodes |-> TRUE],
     [capsule |-> listedCapsule("a", "c", nodeName), decodes |-> FALSE]}

ListPages == SeqsUpTo(SeqsUpTo(ListEntries, MaxPageLen), MaxPages)

InitList ==
    /\ store = {}
    /\ submitted = {}
    /\ live = {}
    /\ pages \in ListPages
    /\ cap = Nil
    /\ ret = Returned("NewZunProvider", "", "", NoErr, Nil, Nil, <<>>)

NextList == GetPods(pages)

SpecList == InitList /\ [][NextList]_vars

----------------------------------------------------------------------------
(* capsuleToPod on one capsule *)

\* the Zun container statuses the source lists, an unknown one and the empty one
ContainerStatuses ==
    {"Error", "Running", "Stopped", "Paused", "Unknown", "Creating", "Created",
     "Deleted", "Deleting", "Rebuilding", "Dead", "Restarting", "Migrating", ""}

CapsuleStatuses == {"Running", "Succeeded", "Failed", "Pending", "Error", "Stopped", ""}

Addrs ==
    {[Addr |-> "10.0.0.5", Version |-> 4],
     [Addr |-> "10.0.0.6", Version |-> 4],
     [Addr |-> "fd00::1", Version |-> 6]}

Networks == {"private", "public"}

xlateContainer(status) ==
    [Name |-> "app", Image |-> "nginx", Command |-> "sh -c", WorkDir |-> "/",
     ImagePullPolicy |-> "Always", Environment |-> <<>>, CPU |-> 1500, Memory |-> 1024,
     Status |-> status, StatusDetail |-> "detail", ContainerID |-> "cid",
     CreatedAt |-> 1, UpdatedAt |-> 2]

xlateCapsule(status, containers, addresses) ==
    [listedCapsule("a", "c", nodeName) EXCEPT
        !.Status = status, !.Containers = containers, !.Addresses = addresses]

\* the capsules translated: every capsule status with every list of container
\* statuses, and every address map over the networks
XlateCapsules ==
    {xlateCapsule(st, [i \in DOMAIN cs |-> xlateContainer(cs[i])], <<>>) :
        st \in CapsuleStatuses, cs \in SeqsUpTo(ContainerStatuses, MaxContainers)}
    \cup
    {xlateCapsule("Running", <<>>, a) :
        a \in UNION {[nets -> SeqsUpTo(Addrs, MaxAddrs)] : nets \in SUBSET Networks}}

InitXlate ==
    /\ store = {}
    /\ submitted = {}
    /\ live = {}
    /\ pages = <<>>
    /\ cap \in XlateCapsules
    /\ ret = Returned("NewZunProvider", "", "", NoErr, Nil, Nil, <<>>)

Translate ==
    /\ \E order \in MapOrders(cap) :
          LET got == capsuleToPod(cap, order)
          IN  ret' = Returned("capsuleToPod", "", "", got.err, got.pod, Nil, <<>>)
    /\ UNCHANGED <<store, submitted, live, pages, cap>>

NextXlate == Translate

SpecXlate == InitXlate /\ [][NextXlate]_vars

----------------------------------------------------------------------------
(* Claims on the lifecycle operations (Spec) *)

readsOf(pod) ==
    {GetPodResult(pod.Namespace, pod.Name, order) :
        order \in GetPodOrders(pod.Namespace, pod.Name)}

sameIdentity(read, pod) ==
    /\ read.ObjectMeta.Namespace = pod.Namespace
    /\ read.ObjectMeta.Name = pod.Name
    /\ read.ObjectMeta.ClusterName = pod.ClusterName
    /\ read.Spec.NodeName = pod.NodeName

C2_OneCapsulePerPod ==
    /\ \A k \in live : \E P \in submitted : P.Namespace = k[1] /\ P.Name = k[2]
    /\ (ret.op = "GetPod" /\ ret.err = NoErr) =>
          ret.pod.ObjectMeta.Namespace = ret.namespace /\ ret.pod.ObjectMeta.Name = ret.name

\* C5: GetPodStatus returns the Status of what GetPod returns, and (nil, nil)
\* when the engine holds no capsule for the pod.
C5_GetPodStatus ==
    ret.op = "GetPodStatus" =>
        IF capsulesNamed(BuildCapsuleName(ret.namespace, ret.name)) = {}
        THEN ret.status = Nil /\ ret.err = NoErr
        ELSE \E order \in GetPodOrders(ret.namespace, ret.name) :
                LET got == GetPodResult(ret.namespace, ret.name, order)
                IN  ret.err = got.err /\ ret.status = got.pod.Status

\* C6: a DeletePod for a pod of whose name the engine holds no capsule returns
\* the engine's not-found error and leaves the store as it is; any DeletePod
\* returns nil only if a capsule of that name was there and is gone.
C6_DeleteMissing ==
    [][ret'.op = "DeletePod" =>
          LET held == capsulesNamed(BuildCapsuleName(ret'.namespace, ret'.name))
          IN  /\ held = {} => ret'.err = ErrNotFound /\ store' = store
              /\ ret'.err = NoErr => held # {} /\ store' = store \ held]_vars

\* C6 witness: a DeletePod has returned the not-found error for a pod of whose
\* name the engine holds no capsule
C6_Witness ==
    /\ ret.op = "DeletePod" /\ ret.err = ErrNotFound
    /\ capsulesNamed(BuildCapsuleName(ret.namespace, ret.name)) = {}

\* C9: while the engine keeps the capsule CreatePod submitted for a pod P, GetPod
\* and GetPods return it with P's UID.
C9_UIDFromLabel ==
    /\ \A P \in submitted : \A got \in readsOf(P) :
          got.err = NoErr => got.pod.ObjectMeta.UID = P.UID
    /\ (ret.op = "GetPods" /\ ret.err = NoErr) =>
          \A i \in DOMAIN ret.pods :
              \E P \in submitted :
                  sameIdentity(ret.pods[i], P) /\ ret.pods[i].ObjectMeta.UID = P.UID

----------------------------------------------------------------------------
(* Claims on GetPods (SpecList) *)

RECURSIVE listed(_)
listed(pgs) == IF pgs = <<>> THEN <<>> ELSE Head(pgs) \o listed(Tail(pgs))

podOf(entry) == capsuleToPod(entry.capsule, CHOOSE o \in MapOrders(entry.capsule) : TRUE)

labelledForNode(entry) ==
    /\ "NodeName" \in DOMAIN entry.capsule.MetaLabels
    /\ entry.capsule.MetaLabels.NodeName = nodeName

translates(entry) == entry.decodes /\ podOf(entry).err = NoErr

ownedAndTranslates(entry) == labelledForNode(entry) /\ translates(entry)

podsOf(entries) == [i \in DOMAIN entries |-> podOf(entries[i]).pod]

C4_SkipMalformed ==
    ret.op = "GetPods" =>
        /\ ret.err = NoErr
        /\ ret.pods = podsOf(SelectSeq(listed(pages), ownedAndTranslates))

----------------------------------------------------------------------------
(* Claims on capsuleToPod (SpecXlate) *)

errorWithDead(capsule) ==
    /\ capsule.Status = "Error"
    /\ Len(capsule.Containers) = 1
    /\ capsule.Containers[1].Status = "Dead"

terminatedDead(pod) ==
    LET state == pod.Status.ContainerStatuses[1].State
    IN  /\ state.Terminated # Nil
        /\ state.Terminated.Reason = "Dead"
        /\ state.Running = Nil /\ state.Waiting = Nil

\* C7: a capsule with status "Error" and one container with status "Dead"
\* translates to phase Failed and a Terminated state with reason "Dead".
C7_ErrorDeadFailed ==
    (ret.op = "capsuleToPod" /\ errorWithDead(cap)) =>
        ret.pod.Status.Phase = "Failed" /\ terminatedDead(ret.pod)

\* C7, amended: a capsule with status "Error" and one container with status
\* "Dead" translates to phase Unknown and a Terminated state with reason "Dead".
C7_ErrorDeadUnknown ==
    (ret.op = "capsuleToPod" /\ errorWithDead(cap)) =>
        ret.pod.Status.Phase = "Unknown" /\ terminatedDead(ret.pod)

\* C7 witness: such a capsule has been translated
C7_Witness == ret.op = "capsuleToPod" /\ errorWithDead(cap) /\ terminatedDead(ret.pod)

statesSet(state) == {f \in {"Waiting", "Running", "Terminated"} : state[f] # Nil}

\* C8: the state of every container of a translated capsule has exactly one of
\* Waiting, Running, Terminated set: Running for "Running" and "Stopped",
\* Terminated with the status as reason for "Error" and "Dead", and Waiting with
\* the status as reason for every other status.
C8_ContainerState ==
    ret.op = "capsuleToPod" =>
        \A i \in DOMAIN cap.Containers :
            LET status == cap.Containers[i].Status
                state == ret.pod.Status.ContainerStatuses[i].State
            IN  /\ Cardinality(statesSet(state)) = 1
                /\ status \in {"Running", "Stopped"} => statesSet(state) = {"Running"}
                /\ status \in {"Error", "Dead"} =>
                      statesSet(state) = {"Terminated"} /\ state.Terminated.Reason = status
                /\ status \notin {"Running", "Stopped", "Error", "Dead"} =>
                      statesSet(state) = {"Waiting"} /\ state.Waiting.Reason = status

\* C8 witness: a container with a status Zun does not know has been translated
\* to a Waiting state
C8_Witness ==
    /\ ret.op = "capsuleToPod"
    /\ \E i \in DOMAIN cap.Containers :
          /\ cap.Containers[i].Status = "Migrating"
          /\ ret.pod.Status.ContainerStatuses[i].State.Waiting # Nil

RECURSIVE addressesIn(_, _)
addressesIn(addresses, order) ==
    IF order = <<>> THEN <<>>
    ELSE addresses[Head(order)] \o addressesIn(addresses, Tail(order))

RECURSIVE firstIPv4(_)
firstIPv4(addrs) ==
    IF addrs = <<>> THEN ""
    ELSE IF Head(addrs).Version = 4 THEN Head(addrs).Addr ELSE firstIPv4(Tail(addrs))

\* C10: the pod IP is the first version-4 address of the capsule's address
\* data, in some order of its networks, and "" when it has none.
C10_FirstIPv4 ==
    ret.op = "capsuleToPod" =>
        \E order \in MapOrders(cap) :
            ret.pod.Status.PodIP = firstIPv4(addressesIn(cap.Addresses, order))

====
